---------------------------- MODULE Spec2Model ----------------------------
(***************************************************************************)
(* Model of src/client.py, the Streamlit client of the Assignment Grader.  *)
(*                                                                         *)
(* The client is one script that Streamlit runs top to bottom after every  *)
(* user interaction.  Its state is st.session_state plus the values of the *)
(* widgets; an uncaught exception ends the run where it is raised, and the *)
(* writes made to st.session_state before it are kept.                     *)
(*                                                                         *)
(* Python values are tagged records ([t |-> "None"], [t |-> "str", ...]).  *)
(* Credential strings are sequences of characters, so that the slices of   *)
(* the redaction are computed and not assumed.                              *)
(***************************************************************************)
EXTENDS Integers, Sequences, FiniteSets, TLC

VARIABLES
    env,                    \* os.environ values read at lines 12-14
    session_state,          \* st.session_state: a function on the keys present
    uploaded_file,          \* value of the st.file_uploader widget (line 98)
    rubric,                 \* value of the st.text_area widget (line 134)
    check_plagirism_option, \* value of the st.checkbox widget (line 147)
    buttons,                \* the buttons the last script run rendered
    run,                    \* what the last script run did and displayed
    wire,                   \* every HTTP request posted so far
    call                    \* one call of call_api_tool: its inputs and result

vars == <<env, session_state, uploaded_file, rubric, check_plagirism_option,
          buttons, run, wire, call>>

---------------------------------------------------------------------------
(* Python values *)

None == [t |-> "None"]
Str(s) == [t |-> "str", s |-> s]
Dict(d) == [t |-> "dict", d |-> d]
Number(n) == [t |-> "number", n |-> n]

IsNone(v) == v.t = "None"

\* d[k] = v on a Python dict modelled as a function on its keys
SetItem(d, k, v) == [x \in (DOMAIN d) \cup {k} |-> IF x = k THEN v ELSE d[x]]

EmptyDict == [x \in {} |-> None]

Min(a, b) == IF a < b THEN a ELSE b
Max(a, b) == IF a > b THEN a ELSE b

\* s[:n] and s[-n:] of a Python string, n > 0
SliceHead(s, n) == SubSeq(s, 1, Min(n, Len(s)))
SliceTail(s, n) == SubSeq(s, Max(1, Len(s) - n + 1), Len(s))

---------------------------------------------------------------------------
(* Inputs of the remote call *)

RedactKeep == 5
PostTimeout == 60
StatusOK == 200

CredentialFields == {"openai_api_key", "google_api_key", "search_engine_id"}

Key0 == << >>
Key3 == <<"s", "k", "-">>
Key10 == <<"s", "k", "-", "a", "b", "c", "d", "e", "f", "g">>
Key12 == <<"A", "I", "z", "a", "0", "1", "2", "3", "4", "5", "6", "7">>
UserKey == <<"u", "s", "e", "r">>
EngineId == <<"c", "x", "1">>

ToolNames == {"parse_file", "check_plagiarism", "grade_text", "generate_feedback"}

Envs == [openai_api_key : {Key0, Key3, Key10, Key12},
         google_api_key : {Key0, Key10, Key12},
         search_engine_id : {Key0, EngineId}]

TextValue == <<"t", "x", "t">>
PathValue == <<"a", ".", "p", "d", "f">>

Payloads ==
    { EmptyDict,
      [k \in {"file_path"} |-> PathValue],
      [k \in {"text", "rubric"} |-> TextValue],
      [k \in {"text", "openai_api_key"} |-> IF k = "text" THEN TextValue ELSE UserKey],
      [k \in {"text"} \cup CredentialFields |-> IF k = "text" THEN TextValue ELSE UserKey] }

\* response.json(): the bodies the model's server sends, and what they parse to
JsonBodies == {"{\"grade\": \"B+\"}", "\"Good work\"", "{\"siteA.com\": 85}", "null"}
TextBodies == {"hello", ""}

JsonParse(text) ==
    CASE text = "{\"grade\": \"B+\"}" -> Dict([k \in {"grade"} |-> Str("B+")])
      [] text = "\"Good work\"" -> Str("Good work")
      [] text = "{\"siteA.com\": 85}" -> Dict([k \in {"siteA.com"} |-> Number(85)])
      [] text = "null" -> None

ServerOutcomes ==
    [kind : {"response"}, status_code : {200, 404, 500}, text : JsonBodies \cup TextBodies]
    \cup [kind : {"exception"}, message : {"Connection refused", "Read timed out"}]

---------------------------------------------------------------------------
(* call_api_tool, lines 26-72 *)

\* lines 31-36: request_data = data.copy() and the three assignments
BuildRequestData(data) ==
    SetItem(SetItem(SetItem(data,
        "openai_api_key", env.openai_api_key),
        "google_api_key", env.google_api_key),
        "search_engine_id", env.search_engine_id)

\* f"{key[:5]}...{key[-5:]}"
Redacted(key) == SliceHead(key, RedactKeep) \o <<".", ".", ".">> \o SliceTail(key, RedactKeep)

\* The local variable key of call_api_tool: unbound until an assignment runs.
KeyUnbound == [bound |-> FALSE]
KeyBound(v) == [bound |-> TRUE, v |-> v]

\* lines 40-42: the f-string reads key before line 42 assigns it
RedactOpenai(log_data, key) ==
    IF "openai_api_key" \in DOMAIN log_data
    THEN IF ~key.bound
         THEN [exc |-> "UnboundLocalError", log_data |-> log_data, key |-> key]
         ELSE LET ld == SetItem(log_data, "openai_api_key", Redacted(key.v))
              IN  [exc |-> "", log_data |-> ld, key |-> KeyBound(ld["openai_api_key"])]
    ELSE [exc |-> "", log_data |-> log_data, key |-> key]

\* lines 43-45
RedactGoogle(log_data, key) ==
    IF "google_api_key" \in DOMAIN log_data
    THEN LET k == log_data["google_api_key"]
         IN  [exc |-> "", log_data |-> SetItem(log_data, "google_api_key", Redacted(k)),
              key |-> KeyBound(k)]
    ELSE [exc |-> "", log_data |-> log_data, key |-> key]

\* lines 50-55: the request handed to requests.post
PostRequest(tool_name, request_data) ==
    [url |-> [base |-> session_state["api_server_url"], path |-> <<"tools", tool_name>>],
     json |-> request_data,
     headers |-> [k \in {"Context-Type"} |-> "application/json"],
     timeout |-> PostTimeout]

\* lines 49-72: the try block, given what the server does with the request
PostAndNormalize(tool_name, request_data, server) ==
    LET sent == <<PostRequest(tool_name, request_data)>>
    IN  IF server.kind = "exception"
        THEN \* lines 68-72
             [outcome |-> "return", ret |-> None, exc |-> "", sent |-> sent,
              errors |-> <<[prefix |-> "Error conecting to server",
                            detail |-> server.message]>>]
        ELSE IF server.status_code # StatusOK
        THEN \* lines 57-61
             [outcome |-> "return", ret |-> None, exc |-> "", sent |-> sent,
              errors |-> <<[prefix |-> "Error from server",
                            status_code |-> server.status_code,
                            detail |-> server.text]>>]
        ELSE IF server.text \in JsonBodies
        THEN \* line 64
             [outcome |-> "return", ret |-> JsonParse(server.text), exc |-> "",
              sent |-> sent, errors |-> << >>]
        ELSE \* lines 65-66
             [outcome |-> "return", ret |-> Str(server.text), exc |-> "",
              sent |-> sent, errors |-> << >>]

Raise(name) ==
    [outcome |-> "raise", ret |-> None, exc |-> name, sent |-> << >>, errors |-> << >>]

\* The whole function.  info is what logger.info received at line 47.
call_api_tool(tool_name, data, server) ==
    LET request_data == BuildRequestData(data)
        s1 == RedactOpenai(request_data, KeyUnbound)
        s2 == RedactGoogle(s1.log_data, s1.key)
    IN  IF s1.exc # ""
        THEN [r \in {"info"} \cup DOMAIN Raise(s1.exc) |->
                 IF r = "info" THEN << >> ELSE Raise(s1.exc)[r]]
        ELSE LET p == PostAndNormalize(tool_name, request_data, server)
             IN  [r \in {"info"} \cup DOMAIN p |->
                     IF r = "info"
                     THEN <<[tool_name |-> tool_name, data |-> s2.log_data]>>
                     ELSE p[r]]

---------------------------------------------------------------------------
(* The script, lines 16-23 and 93-257 *)

Files == {"essay.pdf", "report.docx"}
NoFile == ""
Rubrics == {"default", "custom"}

ProcessButton == "Process Document"
GradeButton == "Grade Assignment"
SaveButton == "Save API Settings"
NoClick == ""

\* os.path.splitext(uploaded_file.name)[1]
SplitExt(name) == IF name = "essay.pdf" THEN ".pdf" ELSE ".docx"

\* tmp_file.name of a NamedTemporaryFile(delete=False, suffix=...): a new
\* file on every run; only its suffix is determined.
TempFileName(name) == [t |-> "tmpfile", suffix |-> SplitExt(name)]

\* str(result) of a result that is not a str
Stringify(v) == [t |-> "str", s |-> "repr", of |-> v]

\* The name call_mcp_tool is bound nowhere in the module: evaluating it, at
\* lines 111, 157, 164 and 174, raises NameError before any argument is used.
call_mcp_tool(tool_name, data) == Raise("NameError")

\* lines 17-23
Preamble(ss) ==
    LET s0 == IF "api_server_url" \in DOMAIN ss THEN ss
              ELSE SetItem(ss, "api_server_url", "http://localhost:8088")
    IN  SetItem(SetItem(SetItem(s0,
            "openai_api_key", env.openai_api_key),
            "google_api_key", env.google_api_key),
            "search_engine_id", env.search_engine_id)

\* A script run in progress: the session, the exception that ended it (if
\* any), what it displayed, the widgets it rendered, the requests it posted.
StartFrame(ss, clicked) ==
    [ss |-> Preamble(ss), clicked |-> clicked, exc |-> "", shown |-> {},
     rendered |-> {}, sent |-> << >>, results |-> [view |-> "not rendered"]]

Show(fr, msgs) == [fr EXCEPT !.shown = @ \cup msgs]
Render(fr, ws) == [fr EXCEPT !.rendered = @ \cup ws]
Store(fr, k, v) == [fr EXCEPT !.ss = SetItem(@, k, v)]
Abort(fr, name) == [fr EXCEPT !.exc = name]
Posted(fr, r) ==
    [fr EXCEPT !.sent = @ \o [i \in 1..Len(r.sent) |->
        [tool_name |-> r.sent[i].url.path[2],
         has_document |-> "document_text" \in DOMAIN fr.ss]]]

\* lines 109-127: the body of if st.button("Process Document")
ProcessDocument(fr, file_path) ==
    LET r == call_mcp_tool("parse_file", [k \in {"file_path"} |-> file_path])
        f1 == Posted(fr, r)
    IN  IF r.outcome = "raise" THEN Abort(f1, r.exc)
        ELSE IF IsNone(r.ret)
        THEN Show(f1, {"error: Failed to process document"})
        ELSE IF r.ret.t = "str"
        THEN \* lines 116-118: len(result.split) is len() of a method
             Abort(Show(Store(f1, "document_text", r.ret),
                        {"success: Document processed successfully!"}),
                   "TypeError")
        ELSE \* lines 123-127: streamlit has no attribute join
             Abort(Show(Store(f1, "document_text", Stringify(r.ret)),
                        {"success: Document processed!"}),
                   "AttributeError")

\* lines 95-127
Tab1(fr, file, clicked) ==
    IF fr.exc # "" THEN fr
    ELSE LET f0 == Render(fr, {"file_uploader"})
         IN  IF file = NoFile THEN f0
             ELSE LET file_path == TempFileName(file)
                      f1 == Store(Store(f0, "file_path", file_path),
                                  "file_name", Str(file))
                      f2 == Render(f1, {ProcessButton})
                  IN  IF clicked = ProcessButton
                      THEN ProcessDocument(f2, file_path)
                      ELSE f2

\* The gate as it would be if it tested the upload and not the parse
GradeGate_FileOnly(ss) == "file_name" \in DOMAIN ss

\* line 149, left operand: the Grade Assignment button exists only then
GradeGate(ss) == "document_text" \in DOMAIN ss

\* lines 155-160
PlagiarismStep(fr, check) ==
    IF fr.exc # "" \/ ~check THEN fr
    ELSE LET f0 == Show(fr, {"info: Checking for plagiarism"})
             \* line 157: the name call_mcp_tool is evaluated first, then
             \* the argument st.session_state['document_Text'], then the call
             r0 == call_mcp_tool("check_plagiarism",
                       [k \in {"text"} |->
                           IF "document_Text" \in DOMAIN f0.ss
                           THEN f0.ss["document_Text"] ELSE None])
             r == IF r0.exc = "NameError" THEN r0
                  ELSE IF "document_Text" \notin DOMAIN f0.ss THEN Raise("KeyError")
                  ELSE r0
             f1 == Posted(f0, r)
         IN  IF r.outcome = "raise" THEN Abort(f1, r.exc)
             ELSE LET f2 == Store(f1, "plagiarism_results", r.ret)
                  IN  IF IsNone(r.ret)
                      THEN Show(f2, {"warning: Plagiarism check failed or returned no results."})
                      ELSE f2

\* lines 162-170
GradeStep(fr, rub) ==
    IF fr.exc # "" THEN fr
    ELSE LET f0 == Show(fr, {"info: Generating grade..."})
             r == call_mcp_tool("grade_text",
                      [k \in {"text", "rubric"} |->
                          IF k = "text" THEN f0.ss["document_text"] ELSE Str(rub)])
             f1 == Posted(f0, r)
         IN  IF r.outcome = "raise" THEN Abort(f1, r.exc)
             ELSE LET f2 == Store(f1, "grade_results", r.ret)
                  IN  IF IsNone(r.ret)
                      THEN Show(f2, {"warning: Grade generation failed or returned no results."})
                      ELSE f2

\* lines 172-181
FeedbackStep(fr, rub) ==
    IF fr.exc # "" THEN fr
    ELSE LET f0 == Show(fr, {"info: Generating feedback..."})
             r == call_mcp_tool("generate_feedback",
                      [k \in {"text", "rubric"} |->
                          IF k = "text" THEN f0.ss["document_text"] ELSE Str(rub)])
             f1 == Posted(f0, r)
         IN  IF r.outcome = "raise" THEN Abort(f1, r.exc)
             ELSE LET f2 == Store(f1, "feedback", r.ret)
                  IN  IF IsNone(r.ret)
                      THEN Show(f2, {"warning: Feedback generation failed or returned no results."})
                      ELSE f2

\* lines 183-188
GradingVerdict(fr) ==
    IF fr.exc # "" THEN fr
    ELSE IF ~IsNone(fr.ss["grade_results"]) \/ ~IsNone(fr.ss["feedback"])
    THEN Show(fr, {"success: Grading completed!"})
    ELSE Show(fr, {"error: Grading process encountered errors."})

\* lines 150-188: the body of if ... st.button("Grade Assignment")
GradeAssignment(fr, rub, check) ==
    GradingVerdict(
        FeedbackStep(
            GradeStep(
                PlagiarismStep(Store(fr, "rubric", Str(rub)), check),
                rub),
            rub))

\* lines 129-188
Tab2(fr, rub, check, clicked) ==
    IF fr.exc # "" THEN fr
    ELSE LET f0 == Render(fr, {"rubric", "checkbox"})
         IN  IF GradeGate(f0.ss)
             THEN LET f1 == Render(f0, {GradeButton})
                  IN  IF clicked = GradeButton
                      THEN GradeAssignment(f1, rub, check)
                      ELSE f1
             ELSE f0

HighSimilarity == 70
ModerateSimilarity == 40

ExportButton == "Export to PDF"
DatabaseButton == "Save to Database"

\* The gate as it would be if it tested the values and not the keys
ResultsGate_NonNull(ss) ==
    \A k \in {"file_name", "grade_results", "feedback"} :
        k \in DOMAIN ss /\ ~IsNone(ss[k])

\* line 194
ResultsGate(ss) == \A k \in {"file_name", "grade_results", "feedback"} : k \in DOMAIN ss

\* bool(v) of a Python value
Truthy(v) ==
    CASE v.t = "None" -> FALSE
      [] v.t = "dict" -> DOMAIN v.d # {}
      [] v.t = "str" -> v.s # ""
      [] v.t = "number" -> v.n # 0

\* lines 198-204
GradeDisplay(fr) ==
    IF fr.exc # "" \/ "grade_results" \notin DOMAIN fr.ss THEN fr
    ELSE LET v == fr.ss["grade_results"]
         IN  IF IsNone(v)
             THEN [Show(fr, {"warning: Grade information is not available."})
                      EXCEPT !.results.metric = Str("Not available")]
             ELSE IF v.t = "dict"
             THEN \* .get('grade', 'Not available')
                  [fr EXCEPT !.results.metric =
                      IF "grade" \in DOMAIN v.d THEN v.d["grade"] ELSE Str("Not available")]
             ELSE \* a str or a number has no attribute get
                  Abort(fr, "AttributeError")

\* lines 206-212
FeedbackDisplay(fr) ==
    IF fr.exc # "" \/ "feedback" \notin DOMAIN fr.ss THEN fr
    ELSE LET v == fr.ss["feedback"]
         IN  IF IsNone(v)
             THEN Show(fr, {"warning: Feedback is not available."})
             ELSE [fr EXCEPT !.results.feedback = v]

\* The chain as it would be with >= for > in both comparisons
SimilarityMessages_GE(url, similarity) ==
    IF similarity >= HighSimilarity
    THEN {[level |-> "High", url |-> url, similarity |-> similarity]}
    ELSE IF similarity >= ModerateSimilarity
    THEN {[level |-> "Moderate", url |-> url, similarity |-> similarity]}
    ELSE {[level |-> "Low", url |-> url, similarity |-> similarity]}

\* lines 226-231: what one (url, similarity) item displays
SimilarityMessages(url, similarity) ==
    IF similarity > HighSimilarity
    THEN {[level |-> "High", url |-> url, similarity |-> similarity]}
    ELSE IF similarity > ModerateSimilarity
    THEN {[level |-> "Moderate", url |-> url, similarity |-> similarity]}
    ELSE {[level |-> "Low", url |-> url, similarity |-> similarity]}

\* lines 214-231
PlagiarismDisplay(fr) ==
    IF fr.exc # "" THEN fr
    ELSE IF "plagiarism_results" \in DOMAIN fr.ss /\ Truthy(fr.ss["plagiarism_results"])
    THEN LET results == fr.ss["plagiarism_results"]
         IN  IF results.t = "dict"
             THEN IF "error" \in DOMAIN results.d
                  THEN Show(fr, {"error: Plagiarism check error"})
                  ELSE IF \E url \in DOMAIN results.d : results.d[url].t # "number"
                  THEN \* similarity > 70 on a value that is not a number
                       Abort(fr, "TypeError")
                  ELSE [fr EXCEPT !.results.matches =
                           UNION {SimilarityMessages(url, results.d[url].n) :
                                      url \in DOMAIN results.d}]
             ELSE IF results.t = "str"
             THEN \* a str without "error" in it has no attribute items
                  Abort(fr, "AttributeError")
             ELSE \* 'error' in a number
                  Abort(fr, "TypeError")
    ELSE fr

\* lines 233-239
ExportOptions(fr) ==
    IF fr.exc # "" THEN fr
    ELSE LET f0 == Render(fr, {ExportButton, DatabaseButton})
         IN  IF fr.clicked = ExportButton
             THEN Show(f0, {"info: PDF export functionaliry would go here"})
             ELSE IF fr.clicked = DatabaseButton
             THEN Show(f0, {"info: Database save functionality would go here"})
             ELSE f0

\* lines 191-241
Tab3(fr) ==
    IF fr.exc # "" THEN fr
    ELSE IF ResultsGate(fr.ss)
    THEN ExportOptions(PlagiarismDisplay(FeedbackDisplay(GradeDisplay(
             [fr EXCEPT !.results = [view |-> "results",
                                     file_name |-> fr.ss["file_name"],
                                     metric |-> None, feedback |-> None,
                                     matches |-> {}]]))))
    ELSE Show([fr EXCEPT !.results = [view |-> "none"]],
              {"info: No grading results available."})

\* lines 244-257
Sidebar(fr) ==
    IF fr.exc # "" THEN fr
    ELSE LET f0 == Render(fr, {SaveButton})
         IN  IF fr.clicked = SaveButton
             THEN Show(f0, {"success: API settings saved"})
             ELSE f0

\* One run of the script, top to bottom, with the widgets' values
RunScript(ss, file, rub, check, clicked) ==
    Sidebar(Tab3(Tab2(Tab1(StartFrame(ss, clicked), file, clicked),
                      rub, check, clicked)))

---------------------------------------------------------------------------
(* The session: every user interaction reruns the script *)

Buttons == {ProcessButton, GradeButton, SaveButton, ExportButton, DatabaseButton}

IdleCall == [phase |-> "idle"]

\* The state a script run leaves behind
AfterRun(fr) ==
    /\ session_state' = fr.ss
    /\ buttons' = fr.rendered
    /\ run' = [clicked |-> fr.clicked, exc |-> fr.exc, shown |-> fr.shown,
               results |-> fr.results]
    /\ wire' = wire \cup {fr.sent[i] : i \in 1..Len(fr.sent)}

\* The user chooses or removes a file in the uploader (line 98)
ChooseFile ==
    /\ call = IdleCall
    /\ "file_uploader" \in buttons
    /\ \E f \in (Files \cup {NoFile}) \ {uploaded_file} :
          /\ uploaded_file' = f
          /\ AfterRun(RunScript(session_state, f, rubric, check_plagirism_option, NoClick))
    /\ UNCHANGED <<env, rubric, check_plagirism_option, call>>

\* The user edits the rubric text area (line 134)
EditRubric ==
    /\ call = IdleCall
    /\ "rubric" \in buttons
    /\ \E r \in Rubrics \ {rubric} :
          /\ rubric' = r
          /\ AfterRun(RunScript(session_state, uploaded_file, r, check_plagirism_option, NoClick))
    /\ UNCHANGED <<env, uploaded_file, check_plagirism_option, call>>

\* The user toggles the plagiarism checkbox (line 147)
ToggleCheckbox ==
    /\ call = IdleCall
    /\ "checkbox" \in buttons
    /\ check_plagirism_option' = ~check_plagirism_option
    /\ AfterRun(RunScript(session_state, uploaded_file, rubric, ~check_plagirism_option, NoClick))
    /\ UNCHANGED <<env, uploaded_file, rubric, call>>

\* The user clicks one of the buttons the last run rendered
Click ==
    /\ call = IdleCall
    /\ \E b \in Buttons \cap buttons :
          AfterRun(RunScript(session_state, uploaded_file, rubric, check_plagirism_option, b))
    /\ UNCHANGED <<env, uploaded_file, rubric, check_plagirism_option, call>>

Next == ChooseFile \/ EditRubric \/ ToggleCheckbox \/ Click

\* The state after the first run of the script on session ss
FirstRun(ss, file, rub, check) ==
    LET fr == RunScript(ss, file, rub, check, NoClick)
    IN  /\ session_state = fr.ss
        /\ uploaded_file = file
        /\ rubric = rub
        /\ check_plagirism_option = check
        /\ buttons = fr.rendered
        /\ run = [clicked |-> NoClick, exc |-> fr.exc, shown |-> fr.shown,
                  results |-> fr.results]
        /\ wire = {}

ScriptEnvs == {[openai_api_key |-> Key0, google_api_key |-> Key0, search_engine_id |-> Key0],
               [openai_api_key |-> Key3, google_api_key |-> Key0, search_engine_id |-> Key0],
               [openai_api_key |-> Key10, google_api_key |-> Key12, search_engine_id |-> EngineId]}

\* A new session: an empty st.session_state, the widgets at their defaults
Init ==
    /\ env \in ScriptEnvs
    /\ call = IdleCall
    /\ FirstRun(EmptyDict, NoFile, "default", TRUE)

Spec == Init /\ [][Next]_vars

---------------------------------------------------------------------------
(* The handlers on any session the script is written for *)

MaxSimilarity == 100

Absent == [t |-> "absent"]
With(ss, k, v) == IF v = Absent THEN ss ELSE SetItem(ss, k, v)

DocumentText == Str("Lorem ipsum...")

PlagiarismSeeds ==
    { Absent, None, Dict(EmptyDict),
      Dict([k \in {"error"} |-> Str("quota exceeded")]),
      Dict([k \in {"siteA.com", "siteB.com"} |->
               IF k = "siteA.com" THEN Number(85) ELSE Number(40)]),
      Str("hello") }

GradeSeeds ==
    { Absent, None, Dict([k \in {"grade"} |-> Str("B+")]),
      Dict([k \in {"score"} |-> Number(87)]), Str("hello") }

FeedbackSeeds == { Absent, None, Str("Good work") }

\* A session in which a file was uploaded and parsed
ParsedSession(file, rub, plag, grade, fb) ==
    With(With(With(With(
        SetItem(SetItem(SetItem(EmptyDict,
            "file_path", TempFileName(file)),
            "file_name", Str(file)),
            "document_text", DocumentText),
        "rubric", rub),
        "plagiarism_results", plag),
        "grade_results", grade),
        "feedback", fb)

\* The sessions the handlers are written for: nothing uploaded; a file
\* uploaded; a file parsed, with any of the later keys set to any shape of
\* result, and with a plagiarism result of every similarity.
SeededSessions ==
    { EmptyDict }
    \cup { SetItem(SetItem(EmptyDict, "file_path", TempFileName(f)), "file_name", Str(f)) :
             f \in Files }
    \cup { ParsedSession(f, rub, plag, grade, fb) :
             f \in Files, rub \in {Absent, Str("default")}, plag \in PlagiarismSeeds,
             grade \in GradeSeeds, fb \in FeedbackSeeds }
    \cup { ParsedSession("essay.pdf", Str("default"),
                         Dict([k \in {"siteA.com"} |-> Number(n)]),
                         Dict([k \in {"grade"} |-> Str("B+")]), Str("Good work")) :
             n \in 0..MaxSimilarity }

InitSeeded ==
    /\ env = [openai_api_key |-> Key10, google_api_key |-> Key12,
              search_engine_id |-> EngineId]
    /\ call = IdleCall
    /\ \E ss \in SeededSessions :
          FirstRun(ss,
                   IF "file_name" \in DOMAIN ss THEN ss["file_name"].s ELSE NoFile,
                   "default", TRUE)

SpecSeeded == InitSeeded /\ [][Next]_vars

---------------------------------------------------------------------------
(* Specification of one call of call_api_tool on any input *)

InitInvoker ==
    /\ env \in Envs
    /\ FirstRun(EmptyDict, NoFile, "default", TRUE)
    /\ call \in [phase : {"ready"}, tool_name : ToolNames, data : Payloads,
                 server : ServerOutcomes]

Invoke ==
    /\ call.phase = "ready"
    /\ LET r == call_api_tool(call.tool_name, call.data, call.server)
       IN  /\ call' = [phase |-> "done", tool_name |-> call.tool_name,
                       data |-> call.data, server |-> call.server, result |-> r]
           /\ wire' = wire \cup {r.sent[i] : i \in 1..Len(r.sent)}
    /\ UNCHANGED <<env, session_state, uploaded_file, rubric,
                   check_plagirism_option, buttons, run>>

NextInvoker == Invoke

SpecInvoker == InitInvoker /\ [][NextInvoker]_vars


---------------------------------------------------------------------------
(* Properties of call_api_tool *)

Returned == call.phase = "done"

\* What the specification says the transmitted body is: the payload with the
\* three credential fields set to the configured values.
MergedBody(data) ==
    [k \in (DOMAIN data) \cup CredentialFields |->
        IF k \in CredentialFields THEN env[k] ELSE data[k]]

\* What the specification says the logged copy is: the two API keys, when
\* non-empty, cut to their first and last five characters.
RedactedCopy(body) ==
    [k \in DOMAIN body |->
        IF k \in {"openai_api_key", "google_api_key"} /\ Len(body[k]) > 0
        THEN SliceHead(body[k], RedactKeep) \o <<".", ".", ".">> \o SliceTail(body[k], RedactKeep)
        ELSE body[k]]

\* C1: call_api_tool never raises to its caller: every call ends by
\* returning a result or None, whatever the tool, the payload and the server do.
C1_NeverRaises ==
    Returned => call.result.outcome = "return"

\* C2: the body transmitted by a call equals the payload with the three
\* credential fields set to the configured values, every other key unchanged.
C2_TransmittedBody ==
    Returned =>
        /\ Len(call.result.sent) = 1
        /\ call.result.sent[1].json = MergedBody(call.data)

\* C3: every server outcome is normalized into one returned result: None for a
\* non-200 status (with a logged error holding the status) and for a transport
\* exception, the parsed value for a 200 JSON body, the raw text for a 200
\* body that is not JSON.
C3_NormalizedOutcome ==
    Returned =>
        LET r == call.result
            server == call.server
        IN  /\ r.outcome = "return"
            /\ server.kind = "exception" => IsNone(r.ret)
            /\ (server.kind = "response" /\ server.status_code # 200) =>
                   /\ IsNone(r.ret)
                   /\ Len(r.errors) = 1
                   /\ r.errors[1].status_code = server.status_code
            /\ (server.kind = "response" /\ server.status_code = 200
                    /\ server.text \in JsonBodies) =>
                   r.ret = JsonParse(server.text)
            /\ (server.kind = "response" /\ server.status_code = 200
                    /\ server.text \in TextBodies) =>
                   r.ret = Str(server.text)

\* C4: before sending, the call logs a redacted copy of the request body (each
\* non-empty API key cut to first five + "..." + last five characters, an empty
\* one left as it is); the redaction does not crash on short or empty keys and
\* does not alter the body that is sent.
C4_RedactedLog ==
    Returned =>
        /\ call.result.outcome = "return"
        /\ Len(call.result.info) = 1
        /\ call.result.info[1].data = RedactedCopy(MergedBody(call.data))
        /\ \A i \in 1..Len(call.result.sent) :
               call.result.sent[i].json = MergedBody(call.data)

---------------------------------------------------------------------------
(* Properties of the session *)

Present(k) == k \in DOMAIN session_state
Requested(tool) == \E w \in wire : w.tool_name = tool

GradingKeys == {"rubric", "plagiarism_results", "grade_results", "feedback"}
GradingTools == {"check_plagiarism", "grade_text", "generate_feedback"}

\* C5: with the server unreachable, after any sequence of uploads, Process
\* Document and Grade Assignment actions, every remote call returns None (so
\* none raises, and Process Document displays its failure message), the
\* session never holds a non-null grade_results or feedback, and a rendered
\* results view shows "not available" for the grade and for the feedback.
C5_FailureScenario ==
    /\ run.clicked \in {ProcessButton, GradeButton} => run.exc = ""
    /\ run.clicked = ProcessButton => "error: Failed to process document" \in run.shown
    /\ \A k \in {"grade_results", "feedback"} : Present(k) => IsNone(session_state[k])
    /\ run.results.view = "results" =>
           /\ "warning: Grade information is not available." \in run.shown
           /\ "warning: Feedback is not available." \in run.shown

\* C6: a Process Document action posts a parse_file request and then either
\* stores document_text (the result was not None) or displays an error and
\* leaves document_text unset (the result was None).
C6_ProcessDocument ==
    run.clicked = ProcessButton =>
        /\ Requested("parse_file")
        /\ \/ Present("document_text")
           \/ /\ ~Present("document_text")
              /\ "error: Failed to process document" \in run.shown

\* C7: a Grade Assignment action taken with document_text present runs to
\* completion: grade_text and generate_feedback are both requested and
\* grade_results and feedback are both stored, whichever calls fail and
\* whether or not the plagiarism check is enabled.
C7_GradeCompletes ==
    run.clicked = GradeButton =>
        /\ run.exc = ""
        /\ Requested("grade_text") /\ Requested("generate_feedback")
        /\ Present("grade_results") /\ Present("feedback")

\* C8: a similarity above 70 is displayed as high, one above 40 and at most
\* 70 as moderate, one of at most 40 as low, and every similarity is displayed
\* in exactly one of the three buckets.
C8_Bucketing ==
    (run.results.view = "results" /\ run.exc = "" /\ Present("plagiarism_results")) =>
        LET results == session_state["plagiarism_results"]
            Levels(url) == {m.level : m \in {x \in run.results.matches : x.url = url}}
        IN  (results.t = "dict" /\ "error" \notin DOMAIN results.d) =>
                \A url \in DOMAIN results.d :
                    LET similarity == results.d[url].n
                    IN  /\ Cardinality({m \in run.results.matches : m.url = url}) = 1
                        /\ similarity > 70 => Levels(url) = {"High"}
                        /\ (similarity > 40 /\ similarity <= 70) => Levels(url) = {"Moderate"}
                        /\ similarity <= 40 => Levels(url) = {"Low"}

\* A similarity of exactly 70 displayed as moderate
C8_Witness ==
    /\ run.results.view = "results"
    /\ \E m \in run.results.matches : m.similarity = 70 /\ m.level = "Moderate"

\* C9: the keys rubric, plagiarism_results, grade_results and feedback are
\* present in the session only if document_text is, the Grade Assignment
\* button is offered only then, and no check_plagiarism, grade_text or
\* generate_feedback request is posted while document_text is absent.
C9_GradingGated ==
    /\ \A k \in GradingKeys : Present(k) => Present("document_text")
    /\ GradeButton \in buttons => Present("document_text")
    /\ \A w \in wire : w.tool_name \in GradingTools => w.has_document

\* The grading tab rendered for an uploaded file that was not parsed: the
\* button is left out
C9_Witness ==
    /\ Present("file_name") /\ ~Present("document_text")
    /\ {"rubric", "checkbox"} \subseteq buttons
    /\ GradeButton \notin buttons

=============================================================================
